---- MODULE Spec2Model ----
(***************************************************************************)
(* Model of the economic core of src/chart-manager.js (lines 413-769):     *)
(* parameter derivation (toParams), the coefficients K1/K2, the terminal   *)
(* equation F_of_W with its two root finders (solveWTOptimized and         *)
(* solveWTBisection), levelsFromWT, trajectories and tauSweep.             *)
(*                                                                         *)
(* JavaScript numbers are binary floating point.  They are modelled here   *)
(* by a binary floating-point format of the same shape with a short        *)
(* significand: a Number is a pair <<m, e>> standing for m * 2^e, with     *)
(* MantBits significant bits, round-to-nearest-even, overflow to the       *)
(* infinities, and NaN.  Only the width of the significand and the range   *)
(* of the exponent differ from IEEE-754 doubles.                            *)
(***************************************************************************)
EXTENDS Integers, Sequences, FiniteSets, TLC

\* ------------------------------------------------------------------------
\* Number: the floating-point values of the program
\* ------------------------------------------------------------------------

\* Significant bits of a Number (53 in the program; short here so that a
\* product of two significands fits TLC's integers).
MantBits == 12

\* Largest binary exponent of a finite Number: like a double, a Number
\* overflows to Infinity above 2^1024 and is flushed to zero below 2^-1074
\* (the smallest subnormal, 2^(2 - 1024 - 52)).
MaxExp == 1024
MinExp == 2 - MaxExp - 52

\* The exponent field that marks the non-finite values.
SpecialExp == 9999

Pow2[i \in 0..30] == 2^i

Zero == <<0, 0>>
NaN == <<0, SpecialExp>>
PosInf == <<1, SpecialExp>>
NegInf == <<-1, SpecialExp>>
One == <<Pow2[MantBits - 1], 1 - MantBits>>
Two == <<Pow2[MantBits - 1], 2 - MantBits>>
Half == <<Pow2[MantBits - 1], -MantBits>>

IsNaN(x) == x = NaN
IsInf(x) == x[2] = SpecialExp /\ x[1] # 0
isFinite(x) == x[2] # SpecialExp

IAbs(k) == IF k < 0 THEN -k ELSE k
ISgn(k) == IF k < 0 THEN -1 ELSE IF k > 0 THEN 1 ELSE 0

\* Number of binary digits of a positive integer below 2^31.
BitLen(a) == CHOOSE k \in 1..31 : (k = 31 \/ a < Pow2[k]) /\ a >= Pow2[k - 1]

\* The Number s * m * 2^e, or an infinity or zero when e is out of range.
InRange(s, m, e) ==
  IF e + MantBits > MaxExp THEN <<s, SpecialExp>>
  ELSE IF e + MantBits < MinExp THEN Zero
  ELSE <<s * m, e>>

\* A significand that rounding carried to 2^MantBits is renormalised.
Pack(s, m, e) ==
  IF m = Pow2[MantBits] THEN InRange(s, Pow2[MantBits - 1], e + 1) ELSE InRange(s, m, e)

\* Round half to even: quotient q, remainder r, half of the divisor h.
RoundHalfEven(q, r, h) == IF r > h \/ (r = h /\ q % 2 = 1) THEN q + 1 ELSE q

\* s * a * 2^e rounded to MantBits bits, where a has MantBits + k bits.
Round(s, a, k, e) ==
  IF k <= 0 THEN InRange(s, a * Pow2[-k], e + k)
  ELSE Pack(s, RoundHalfEven(a \div Pow2[k], a % Pow2[k], Pow2[k - 1]), e + k)

\* The Number nearest to M * 2^E, for any integer M.
Norm(M, E) == IF M = 0 THEN Zero ELSE Round(ISgn(M), IAbs(M), BitLen(IAbs(M)) - MantBits, E)

FromInt(k) == Norm(k, 0)

Neg(x) == <<-x[1], x[2]>>
Abs(x) == <<IAbs(x[1]), x[2]>>
Sgn(x) == ISgn(x[1])

\* x < y for two Numbers of the same sign s that are not NaN.
LtSameSign(s, x, y) ==
  IF s = 0 THEN FALSE
  ELSE IF s > 0 THEN x[2] < y[2] \/ (x[2] = y[2] /\ x[1] < y[1])
  ELSE x[2] > y[2] \/ (x[2] = y[2] /\ x[1] < y[1])

\* x < y; every comparison with NaN is false.
Lt(x, y) ==
  /\ ~IsNaN(x) /\ ~IsNaN(y)
  /\ IF Sgn(x) # Sgn(y) THEN Sgn(x) < Sgn(y) ELSE LtSameSign(Sgn(x), x, y)
Gt(x, y) == Lt(y, x)
Le(x, y) == ~IsNaN(x) /\ ~IsNaN(y) /\ ~Lt(y, x)
Ge(x, y) == Le(y, x)

\* Math.max of two arguments: NaN if either is NaN.
Max(x, y) == IF IsNaN(x) \/ IsNaN(y) THEN NaN ELSE IF Lt(x, y) THEN y ELSE x

\* Guard bits kept when the smaller operand of a sum is aligned.
GuardBits == 30 - MantBits - 1

\* big + sml for finite non-zero Numbers, big having the larger exponent.
AddAligned(big, sml) ==
  IF big[2] - sml[2] > GuardBits THEN big
  ELSE Norm(big[1] * Pow2[big[2] - sml[2]] + sml[1], sml[2])

Add(x, y) ==
  IF IsNaN(x) \/ IsNaN(y) THEN NaN
  ELSE IF IsInf(x) THEN (IF IsInf(y) /\ y # x THEN NaN ELSE x)
  ELSE IF IsInf(y) THEN y
  ELSE IF x = Zero THEN y
  ELSE IF y = Zero THEN x
  ELSE IF x[2] >= y[2] THEN AddAligned(x, y) ELSE AddAligned(y, x)
Sub(x, y) == Add(x, Neg(y))

Mul(x, y) ==
  IF IsNaN(x) \/ IsNaN(y) THEN NaN
  ELSE IF IsInf(x) \/ IsInf(y)
       THEN (IF x = Zero \/ y = Zero THEN NaN ELSE <<Sgn(x) * Sgn(y), SpecialExp>>)
  ELSE Norm(x[1] * y[1], x[2] + y[2])

\* Bits by which a dividend is shifted before the integer division.
DivShift == 30 - MantBits

Div(x, y) ==
  IF IsNaN(x) \/ IsNaN(y) THEN NaN
  ELSE IF IsInf(x)
       THEN (IF IsInf(y) THEN NaN ELSE <<IF Sgn(y) < 0 THEN -Sgn(x) ELSE Sgn(x), SpecialExp>>)
  ELSE IF IsInf(y) THEN Zero
  ELSE IF y = Zero THEN (IF x = Zero THEN NaN ELSE <<Sgn(x), SpecialExp>>)
  ELSE Norm(Sgn(x) * Sgn(y) * ((IAbs(x[1]) * Pow2[DivShift]) \div IAbs(y[1])),
            x[2] - y[2] - DivShift)

\* The integer nearest to a finite Number of small magnitude.
RoundToInt(x) ==
  IF x[2] >= 0 THEN x[1] * Pow2[x[2]]
  ELSE IF -x[2] > MantBits + 1 THEN 0
  ELSE Sgn(x) * ((IAbs(x[1]) + Pow2[-x[2] - 1]) \div Pow2[-x[2]])

\* A decimal literal m * 10^k, as the program text writes its constants.
RECURSIVE Pow10(_)
Pow10(k) == IF k = 0 THEN One ELSE Mul(FromInt(10), Pow10(k - 1))
Dec(m, k) == IF k >= 0 THEN Mul(FromInt(m), Pow10(k)) ELSE Div(FromInt(m), Pow10(-k))

LN2 == Norm(744261118, -30)
LOG2E == Norm(774541002, -29)

\* exp(rem) * 2^k for a small rem: the Taylor polynomial, then the scaling
\* (which overflows to Infinity or flushes to zero).
Scale(t, k) == Norm(t[1], t[2] + k)
ExpPoly(rem, k) ==
  Scale(Add(One, Mul(rem,
        Add(One, Mul(Div(rem, Two),
        Add(One, Mul(Div(rem, FromInt(3)),
        Add(One, Mul(Div(rem, FromInt(4)),
        Add(One, Div(rem, FromInt(5))))))))))), k)
ExpReduce(x, k) == ExpPoly(Sub(x, Mul(FromInt(k), LN2)), k)

\* Math.exp: range reduction x = k*ln2 + rem, then ExpPoly.
Exp(x) ==
  IF IsNaN(x) THEN NaN
  ELSE IF x = PosInf THEN PosInf
  ELSE IF x = NegInf THEN Zero
  ELSE IF x = Zero THEN One
  ELSE IF x[2] + MantBits > 12 THEN (IF Sgn(x) > 0 THEN PosInf ELSE Zero)
  ELSE ExpReduce(x, RoundToInt(Mul(x, LOG2E)))

\* 2 atanh(z) by its series, z2 = z*z.
Atanh2(z, z2) ==
  Mul(Two, Mul(z, Add(One, Mul(z2,
      Add(Div(One, FromInt(3)), Mul(z2,
      Add(Div(One, FromInt(5)), Mul(z2,
      Add(Div(One, FromInt(7)), Div(z2, FromInt(9)))))))))))
LnSeries(z) == Atanh2(z, Mul(z, z))
LnFraction(f) == LnSeries(Div(Sub(f, One), Add(f, One)))

\* Math.log: x = f * 2^k with 1 <= f < 2, ln f = 2 atanh((f-1)/(f+1)).
Ln(x) ==
  IF IsNaN(x) \/ Sgn(x) < 0 THEN NaN
  ELSE IF x = Zero THEN NegInf
  ELSE IF x = PosInf THEN PosInf
  ELSE Add(Mul(FromInt(x[2] + MantBits - 1), LN2), LnFraction(<<x[1], 1 - MantBits>>))

\* Whether a finite Number is an integer, and whether that integer is odd.
IsInt(x) == isFinite(x) /\ (x[2] >= 0 \/ (-x[2] < MantBits /\ x[1] % Pow2[-x[2]] = 0))
IsOdd(x) ==
  IsInt(x) /\ x[2] <= 0 /\ -x[2] < MantBits /\ (IAbs(x[1]) \div Pow2[-x[2]]) % 2 = 1

\* The sign of b^e for b < 0 and an integer e, given |b|^e.
PowSign(b, e, a) == IF Sgn(b) < 0 /\ IsOdd(e) THEN Neg(a) ELSE a

\* Math.pow(b, e), with the special cases ECMAScript prescribes.
Pow(b, e) ==
  IF e = Zero THEN One
  ELSE IF IsNaN(b) \/ IsNaN(e) THEN NaN
  ELSE IF e = One THEN b
  ELSE IF b = Zero THEN (IF Sgn(e) > 0 THEN Zero ELSE PosInf)
  ELSE IF IsInf(e)
       THEN (IF Abs(b) = One THEN NaN
             ELSE IF Lt(One, Abs(b)) = (Sgn(e) > 0) THEN PosInf ELSE Zero)
  ELSE IF Sgn(b) < 0 /\ ~IsInt(e) THEN NaN
  ELSE IF e = Neg(One) THEN Div(One, b)
  ELSE PowSign(b, e, Exp(Mul(e, Ln(Abs(b)))))

\* ------------------------------------------------------------------------
\* Mathematical constants (chart-manager.js 419-422)
\* ------------------------------------------------------------------------
EPSILON == Dec(1, -10)
MAX_BISECTION_ITERATIONS == 80
MAX_BRACKET_TRIES == 40
LARGE_NEGATIVE == Dec(-1, 99)

\* A call either returns a value or throws an Error with a message.
Return(v) == [threw |-> FALSE, error |-> "", value |-> v]
Throw(msg) == [threw |-> TRUE, error |-> msg, value |-> NaN]

BetaError == "Beta (bequest weight) must be positive"
RateError == "Interest rate r must be non-zero for y/r transform"
BracketError == "Failed to bracket W_T solution"

\* ------------------------------------------------------------------------
\* toParams: the form inputs, parsed and completed with the derived fields
\* ------------------------------------------------------------------------
inputs == <<"r", "rho", "gamma", "eta", "T1", "T2", "beta", "w0", "y", "zeta", "tau">>

\* document.getElementById(k) finds no element.
NoElement == "<no element>"

\* parseFloat on the text of an input element: the numerals the scenarios
\* use, "Infinity", and NaN for everything that does not start a number.
parseFloat(text) ==
  CASE text = "0" -> Zero
    [] text = "1" -> One
    [] text = "2" -> Two
    [] text = "-1" -> Neg(One)
    [] text = "10" -> FromInt(10)
    [] text = "20" -> FromInt(20)
    [] text = "-20" -> FromInt(-20)
    [] text = "100" -> FromInt(100)
    [] text = "-100" -> FromInt(-100)
    [] text = "-180" -> FromInt(-180)
    [] text = "-50" -> FromInt(-50)
    [] text = "400" -> FromInt(400)
    [] text = "0.3" -> Dec(3, -1)
    [] text = "0.05" -> Dec(5, -2)
    [] text = "0.03" -> Dec(3, -2)
    [] text = "1e-8" -> Dec(1, -8)
    [] text = "1e-30" -> Dec(1, -30)
    [] text = "Infinity" -> PosInf
    [] text = "-Infinity" -> NegInf
    [] OTHER -> NaN

\* The annuity factor p.P: a closure over the parameter object, reading
\* p.kappa when it is called.
P(p, H) ==
  IF Lt(Abs(p.kappa), EPSILON) THEN H
  ELSE Div(Sub(One, Exp(Mul(Neg(p.kappa), H))), p.kappa)

\* The numbers of the inputs whose element is there and parses to a finite
\* number; the loop of lines 432-443 throws at the first that is not.
Parsed(raw) == [j \in 1..Len(inputs) |->
                  IF raw[inputs[j]] = NoElement THEN NaN ELSE parseFloat(raw[inputs[j]])]
FirstBad(v) ==
  IF \A j \in DOMAIN v : isFinite(v[j]) THEN 0
  ELSE CHOOSE j \in DOMAIN v : ~isFinite(v[j]) /\ \A h \in 1..(j - 1) : isFinite(v[h])

\* Lines 446-459: the derived parameters.
Derive(r, rho, gamma, eta, T1, T2, beta, w0, y, zeta, tau) ==
  [r |-> r, rho |-> rho, gamma |-> gamma, eta |-> eta, T1 |-> T1, T2 |-> T2,
   beta |-> beta, w0 |-> w0, y |-> y, zeta |-> zeta, tau |-> tau,
   T |-> Add(T1, T2),
   alpha |-> Div(eta, gamma),
   g |-> Div(Sub(r, rho), gamma),
   kappa |-> Div(Add(rho, Mul(Sub(gamma, One), r)), gamma),
   R |-> Exp(Mul(r, Add(T1, T2)))]

ToParamsOf(raw, v, j) ==
  IF j # 0
  THEN (IF raw[inputs[j]] = NoElement
        THEN Throw("Missing input element: " \o inputs[j])
        ELSE Throw("Invalid numeric value for " \o inputs[j] \o ": " \o raw[inputs[j]]))
  ELSE Return(Derive(v[1], v[2], v[3], v[4], v[5], v[6], v[7], v[8], v[9], v[10], v[11]))
ToParamsParsed(raw, v) == ToParamsOf(raw, v, FirstBad(v))
toParams(raw) == ToParamsParsed(raw, Parsed(raw))

\* ------------------------------------------------------------------------
\* Coefficients and the terminal equation
\* ------------------------------------------------------------------------
\* K1 without the test of line 468.
K1Unchecked(p) ==
  Return(Mul(Mul(Mul(Pow(p.beta, Div(Neg(One), p.gamma)),
                     Exp(Mul(Mul(Div(Sub(p.gamma, One), p.gamma), p.r),
                             Add(p.T1, p.T2)))),
                 Pow(Sub(One, p.tau), Div(Sub(p.gamma, One), p.gamma))),
             P(p, p.T1)))
K1(p) ==
  IF Le(p.beta, Zero) THEN Throw(BetaError)
  ELSE Return(Mul(Mul(Mul(Pow(p.beta, Div(Neg(One), p.gamma)),
                          Exp(Mul(Mul(Div(Sub(p.gamma, One), p.gamma), p.r),
                                  Add(p.T1, p.T2)))),
                      Pow(Sub(One, p.tau), Div(Sub(p.gamma, One), p.gamma))),
                  P(p, p.T1)))

K2(p) ==
  IF Le(p.beta, Zero) THEN Throw(BetaError)
  ELSE Return(Mul(Mul(Pow(p.beta, Div(Neg(One), p.gamma)),
                      Exp(Sub(Mul(Mul(Div(Sub(p.gamma, One), p.gamma), p.r), p.T2),
                              Mul(Div(p.rho, p.gamma), p.T1)))),
                  P(p, p.T2)))

\* y/r is written y_r where an expression uses it more than once.
RhsValue(p, X0, y_r) ==
  Sub(Add(Mul(Mul(p.R, Sub(One, p.tau)), X0), Mul(Mul(Exp(Mul(p.r, p.T2)), p.tau), y_r)),
      y_r)
\* RHS without the test of line 497.
RHSUnchecked(p) == Return(RhsValue(p, Add(p.w0, Div(p.y, p.r)), Div(p.y, p.r)))
RHS(p) ==
  IF Lt(Abs(p.r), EPSILON) THEN Throw(RateError)
  ELSE Return(RhsValue(p, Add(p.w0, Div(p.y, p.r)), Div(p.y, p.r)))

\* F(W) = LHS - RHS; RHS(p) is evaluated again on every call.
FValue(W, p, K1v, K2v, rhs) ==
  IF rhs.threw THEN rhs
  ELSE Return(Sub(Add(W, Mul(Add(K1v, K2v), Pow(W, p.alpha))), rhs.value))
F_of_W(W, p, K1v, K2v) ==
  IF Lt(W, Zero) THEN Return(LARGE_NEGATIVE) ELSE FValue(W, p, K1v, K2v, RHS(p))

\* The objective closure of solveWTOptimized, over K1v, K2v, rhsValue and p.
objective(W, p, K1v, K2v, rhsValue) ==
  IF Lt(W, Zero) THEN LARGE_NEGATIVE
  ELSE Sub(Add(W, Mul(Add(K1v, K2v), Pow(W, p.alpha))), rhsValue)

\* Calculate consumption levels A and B from terminal wealth.
levelsFromWT(WT, p) ==
  IF Le(p.beta, Zero) THEN Throw(BetaError)
  ELSE Return(
    [B |-> Pow(Mul(Mul(Mul(Pow(p.beta, Neg(One)), Exp(Mul(Neg(p.rho), p.T1))),
                       Exp(Mul(Neg(p.r), p.T2))),
                   Pow(WT, p.eta)),
               Div(One, p.gamma)),
     A |-> Mul(Mul(Mul(Pow(p.beta, Div(Neg(One), p.gamma)),
                       Exp(Div(Mul(Neg(p.r), Add(p.T1, p.T2)), p.gamma))),
                   Pow(Sub(One, p.tau), Div(Neg(One), p.gamma))),
               Pow(WT, Div(p.eta, p.gamma)))])

\* A filled-in form: the concrete scenario of the design document.
BaseForm ==
  [r |-> "0.05", rho |-> "0.03", gamma |-> "2", eta |-> "1", T1 |-> "20", T2 |-> "20",
   beta |-> "1", w0 |-> "100", y |-> "10", zeta |-> "-50", tau |-> "0.3"]

\* ------------------------------------------------------------------------
\* trajectories: one sample of the time grid and of the two regimes
\* ------------------------------------------------------------------------
\* t = (tEnd * i) / n
\* The grid counted from its far end: t = (tEnd * (n - i)) / n.
TimeAtReversed(tEnd, i, n) == Div(Mul(tEnd, FromInt(n - i)), FromInt(n))
TimeAt(tEnd, i, n) == Div(Mul(tEnd, FromInt(i)), FromInt(n))

\* Lines 711-714 and 717-721: the two branches.
PreLevy(p, A, X0, t) ==
  [regime |-> "pre",
   c |-> Mul(A, Exp(Mul(p.g, t))),
   W |-> Sub(Mul(Exp(Mul(p.r, t)), Sub(X0, Mul(A, P(p, t)))), Div(p.y, p.r))]
PostLevy(p, B, X1p, dt) ==
  [regime |-> "post",
   c |-> Mul(B, Exp(Mul(p.g, dt))),
   W |-> Sub(Mul(Exp(Mul(p.r, dt)), Sub(X1p, Mul(B, P(p, dt)))), Div(p.y, p.r))]

\* Sample with the test of line 709 as t <= p.T1.
SamplePreAtT1(p, A, B, X0, X1p, t) ==
  IF Le(t, p.T1) THEN PreLevy(p, A, X0, t)
  ELSE PostLevy(p, B, X1p, Max(Zero, Sub(t, p.T1)))

\* Line 709: the choice of the branch for the sample at time t.
Sample(p, A, B, X0, X1p, t) ==
  IF Lt(t, Sub(p.T1, EPSILON)) THEN PreLevy(p, A, X0, t)
  ELSE PostLevy(p, B, X1p, Max(Zero, Sub(t, p.T1)))

\* Lines 697-703: the values computed before the sampling loop.
X1mOf(p, A, X0) == Mul(Exp(Mul(p.r, p.T1)), Sub(X0, Mul(A, P(p, p.T1))))
X1pOf(p, X1m) == Add(Mul(Sub(One, p.tau), X1m), Mul(p.tau, Div(p.y, p.r)))
TrajSetupOf(p, X0, X1m) ==
  [X0 |-> X0, tEnd |-> Add(p.T1, p.T2), X1m |-> X1m, X1p |-> X1pOf(p, X1m)]
TrajSetupAt(p, A, X0) == TrajSetupOf(p, X0, X1mOf(p, A, X0))
TrajSetup(p, A) == TrajSetupAt(p, A, Add(p.w0, Div(p.y, p.r)))

\* Lines 726-727: the key transition points W1m and W1p of the result, the
\* two fields tauSweep reads.  They do not depend on the samples.
TransitionPoints(p, s) ==
  [W1m |-> Sub(s.X1m, Div(p.y, p.r)), W1p |-> Sub(s.X1p, Div(p.y, p.r))]

\* ------------------------------------------------------------------------
\* State
\* ------------------------------------------------------------------------
VARIABLES
  pc,        \* the statement the program is at
  caller,    \* the function solveWT returns into
  mlMatrix,  \* whether the global MLMatrix (with MLMatrix.Matrix) is defined
  form,      \* the text of the form's input elements
  p,         \* the parameter object toParams returned (tauSweep writes p.tau)
  n,         \* the argument n of trajectories, or of tauSweep
  opt,       \* locals of solveWTOptimized
  bis,       \* locals of solveWTBisection
  solution,  \* the object solveWT returned: {WT, K1v, K2v}
  error,     \* the message of the Error thrown and not yet caught, or ""
  levels,    \* the object levelsFromWT returned: {A, B}
  traj,      \* locals and arrays of trajectories
  sweep,     \* locals and arrays of tauSweep, and what it wrote with console.warn
  calc,      \* the outcome of a direct call of K1, K2 or levelsFromWT
  bench      \* the loops of benchmarkSolvers, and what solveWTOptimized returned

vars == <<pc, caller, mlMatrix, form, p, n, opt, bis, solution, error, levels, traj,
          sweep, calc, bench>>

\* Literals of solveWTOptimized (lines 543, 551, 552) and tauSweep (744).
OPT_BRACKET_TRIES == 20
tolerance == Dec(1, -12)
maxIterations == 50
maxTau == Dec(8, -1)

NoOpt == [K1v |-> Zero, K2v |-> Zero, rhsValue |-> Zero, a |-> Zero, b |-> Zero,
          fa |-> Zero, fb |-> Zero, i |-> 0, iter |-> 0]
NoBis == [K1v |-> Zero, K2v |-> Zero, rhsValue |-> Zero, lo |-> Zero, hi |-> Zero,
          flo |-> Zero, fhi |-> Zero, tries |-> 0, i |-> 0, mid |-> Zero, fmid |-> Zero]
NoSolution == [WT |-> NaN, K1v |-> NaN, K2v |-> NaN]
NoLevels == [A |-> NaN, B |-> NaN]
NoTraj == [times |-> <<>>, c |-> <<>>, W |-> <<>>, regime |-> <<>>, i |-> 0,
           X0 |-> Zero, tEnd |-> Zero, X1m |-> Zero, X1p |-> Zero,
           W1m |-> NaN, W1p |-> NaN]
NoSweep == [taus |-> <<>>, W1m |-> <<>>, W1p |-> <<>>, WT |-> <<>>, origTau |-> NaN,
            i |-> 0, warned |-> <<>>]
NoCalc == [fn |-> "none", threw |-> FALSE, error |-> "", value |-> NaN]
NoBench == [stage |-> "none", i |-> 0, optimized |-> NoSolution]

\* ------------------------------------------------------------------------
\* solveWT -> solveWTOptimized (lines 633-635, 516-579)
\* ------------------------------------------------------------------------
\* K1(p), K2(p), RHS(p) in this order: the first to throw decides the error.
CoefficientsOf(k1, k2, rhs) ==
  IF k1.threw THEN k1
  ELSE IF k2.threw THEN k2
  ELSE IF rhs.threw THEN rhs
  ELSE Return([K1v |-> k1.value, K2v |-> k2.value, rhsValue |-> rhs.value])
Coefficients(q) == CoefficientsOf(K1(q), K2(q), RHS(q))

\* fa * fb >= 0 (false when the product is NaN)
NoSignChange(fx, fy) == Ge(Mul(fx, fy), Zero)
\* fa * fb < 0
SignChange(fx, fy) == Lt(Mul(fx, fy), Zero)

\* Lines 517-541: the coefficients (outside the try), then, with MLMatrix
\* present, the initial bracket; without it, the fallback call of line 578.
SolveEnter ==
  /\ pc = "solveWT"
  /\ \E co \in {Coefficients(p)} :
       IF co.threw
       THEN /\ pc' = "threw"
            /\ error' = co.error
            /\ UNCHANGED opt
       ELSE \E b0 \in {Max(Mul(co.value.rhsValue, Two), FromInt(10))} :
            \E fa0 \in {objective(Zero, p, co.value.K1v, co.value.K2v, co.value.rhsValue)},
               fb0 \in {objective(b0, p, co.value.K1v, co.value.K2v, co.value.rhsValue)} :
              /\ error' = ""
              /\ IF mlMatrix
                 THEN /\ opt' = [K1v |-> co.value.K1v, K2v |-> co.value.K2v,
                                 rhsValue |-> co.value.rhsValue,
                                 a |-> Zero, b |-> b0, fa |-> fa0, fb |-> fb0,
                                 i |-> 0, iter |-> 0]
                      /\ pc' = IF NoSignChange(fa0, fb0) THEN "opt_expand"
                               ELSE "opt_iterate"
                 ELSE /\ opt' = [NoOpt EXCEPT !.K1v = co.value.K1v, !.K2v = co.value.K2v,
                                              !.rhsValue = co.value.rhsValue]
                      /\ pc' = "solveWTBisection"
  /\ UNCHANGED <<bench, caller, mlMatrix, form, p, n, bis, solution, levels, traj, sweep, calc>>

\* Lines 543-547: one pass of the expanding search, or its exit after
\* OPT_BRACKET_TRIES passes.  No test of the bracket follows the loop.
OptExpand ==
  /\ pc = "opt_expand"
  /\ IF opt.i < OPT_BRACKET_TRIES
     THEN \E b1 \in {Mul(opt.b, Two)} :
          \E fb1 \in {objective(b1, p, opt.K1v, opt.K2v, opt.rhsValue)} :
            IF SignChange(opt.fa, fb1)
            THEN /\ opt' = [opt EXCEPT !.b = b1, !.fb = fb1]
                 /\ pc' = "opt_iterate"
            ELSE /\ opt' = [opt EXCEPT !.b = b1, !.fb = fb1, !.i = @ + 1]
                 /\ pc' = "opt_expand"
     ELSE /\ pc' = "opt_iterate"
          /\ UNCHANGED opt
  /\ UNCHANGED <<bench, caller, mlMatrix, form, p, n, bis, solution, error, levels, traj,
                 sweep, calc>>

\* Lines 554-571: one pass of the iteration, or the return after
\* maxIterations passes.
OptIterate ==
  /\ pc = "opt_iterate"
  /\ IF opt.iter < maxIterations
     THEN \E c \in {Div(Add(opt.a, opt.b), Two)} :
          \E fc \in {objective(c, p, opt.K1v, opt.K2v, opt.rhsValue)} :
            IF Lt(Abs(fc), tolerance) \/ Lt(Abs(Sub(opt.b, opt.a)), tolerance)
            THEN /\ solution' = [WT |-> c, K1v |-> opt.K1v, K2v |-> opt.K2v]
                 /\ pc' = "solved"
                 /\ UNCHANGED opt
            ELSE /\ opt' = IF SignChange(opt.fa, fc)
                           THEN [opt EXCEPT !.b = c, !.fb = fc, !.iter = @ + 1]
                           ELSE [opt EXCEPT !.a = c, !.fa = fc, !.iter = @ + 1]
                 /\ pc' = "opt_iterate"
                 /\ UNCHANGED solution
     ELSE /\ solution' = [WT |-> Div(Add(opt.a, opt.b), Two), K1v |-> opt.K1v,
                          K2v |-> opt.K2v]
          /\ pc' = "solved"
          /\ UNCHANGED opt
  /\ UNCHANGED <<bench, caller, mlMatrix, form, p, n, bis, error, levels, traj, sweep, calc>>

\* ------------------------------------------------------------------------
\* solveWTBisection (lines 584-628)
\* ------------------------------------------------------------------------
\* !(flo < 0 && fhi > 0)
NotBracketed(flo, fhi) == ~(Lt(flo, Zero) /\ Gt(fhi, Zero))

\* Lines 585-597.
BisEnter ==
  /\ pc = "solveWTBisection"
  /\ \E co \in {Coefficients(p)} :
       IF co.threw
       THEN /\ pc' = "threw"
            /\ error' = co.error
            /\ UNCHANGED bis
       ELSE \E hi0 \in {Max(EPSILON, co.value.rhsValue)} :
            \E flo0 \in {F_of_W(Zero, p, co.value.K1v, co.value.K2v)},
               fhi0 \in {F_of_W(hi0, p, co.value.K1v, co.value.K2v)} :
              IF flo0.threw \/ fhi0.threw
              THEN /\ pc' = "threw"
                   /\ error' = RateError
                   /\ UNCHANGED bis
              ELSE /\ bis' = [K1v |-> co.value.K1v, K2v |-> co.value.K2v,
                              rhsValue |-> co.value.rhsValue,
                              lo |-> Zero, hi |-> hi0, flo |-> flo0.value,
                              fhi |-> fhi0.value, tries |-> 0, i |-> 0,
                              mid |-> Zero, fmid |-> Zero]
                   /\ pc' = IF NotBracketed(flo0.value, fhi0.value)
                            THEN "bis_expand" ELSE "bis_iterate"
                   /\ error' = ""
  /\ UNCHANGED <<bench, caller, mlMatrix, form, p, n, opt, solution, levels, traj, sweep, calc>>

\* BisExpand with the loop test of line 599 reduced to !(flo < 0 && fhi > 0).
BisExpandUnbounded ==
  /\ pc = "bis_expand"
  /\ IF NotBracketed(bis.flo, bis.fhi)
     THEN \E hi1 \in {Mul(bis.hi, Two)} :
          \E fhi1 \in {F_of_W(hi1, p, bis.K1v, bis.K2v)} :
            IF fhi1.threw
            THEN pc' = "threw" /\ error' = fhi1.error /\ UNCHANGED bis
            ELSE /\ bis' = [bis EXCEPT !.hi = hi1, !.fhi = fhi1.value, !.tries = @ + 1]
                 /\ pc' = "bis_expand"
                 /\ UNCHANGED error
     ELSE pc' = "bis_iterate" /\ UNCHANGED <<bis, error>>
  /\ UNCHANGED <<bench, caller, mlMatrix, form, p, n, opt, solution, levels, traj, sweep, calc>>

\* Lines 599-606: one pass of the while loop, or its exit: the throw when
\* the bracket is still not valid.
BisExpand ==
  /\ pc = "bis_expand"
  /\ IF bis.tries < MAX_BRACKET_TRIES /\ NotBracketed(bis.flo, bis.fhi)
     THEN \E hi1 \in {Mul(bis.hi, Two)} :
          \E fhi1 \in {F_of_W(hi1, p, bis.K1v, bis.K2v)} :
            IF fhi1.threw
            THEN pc' = "threw" /\ error' = fhi1.error /\ UNCHANGED bis
            ELSE /\ bis' = [bis EXCEPT !.hi = hi1, !.fhi = fhi1.value, !.tries = @ + 1]
                 /\ pc' = "bis_expand"
                 /\ UNCHANGED error
     ELSE IF NotBracketed(bis.flo, bis.fhi)
          THEN pc' = "threw" /\ error' = BracketError /\ UNCHANGED bis
          ELSE pc' = "bis_iterate" /\ UNCHANGED <<bis, error>>
  /\ UNCHANGED <<bench, caller, mlMatrix, form, p, n, opt, solution, levels, traj, sweep, calc>>

\* BisIterate with the test of line 616 written fmid < EPSILON (no Math.abs).
BisIterateSigned ==
  /\ pc = "bis_iterate"
  /\ IF bis.i < MAX_BISECTION_ITERATIONS
     THEN \E mid1 \in {Mul(Half, Add(bis.lo, bis.hi))} :
          \E fmid1 \in {F_of_W(mid1, p, bis.K1v, bis.K2v)} :
            IF fmid1.threw
            THEN pc' = "threw" /\ error' = fmid1.error /\ UNCHANGED <<bis, solution>>
            ELSE IF Lt(fmid1.value, EPSILON)
            THEN /\ bis' = [bis EXCEPT !.mid = mid1, !.fmid = fmid1.value]
                 /\ solution' = [WT |-> mid1, K1v |-> bis.K1v, K2v |-> bis.K2v]
                 /\ pc' = "solved"
                 /\ UNCHANGED error
            ELSE /\ bis' = IF Gt(fmid1.value, Zero)
                           THEN [bis EXCEPT !.mid = mid1, !.fmid = fmid1.value,
                                            !.hi = mid1, !.fhi = fmid1.value, !.i = @ + 1]
                           ELSE [bis EXCEPT !.mid = mid1, !.fmid = fmid1.value,
                                            !.lo = mid1, !.flo = fmid1.value, !.i = @ + 1]
                 /\ pc' = "bis_iterate"
                 /\ UNCHANGED <<solution, error>>
     ELSE /\ solution' = [WT |-> bis.mid, K1v |-> bis.K1v, K2v |-> bis.K2v]
          /\ pc' = "solved"
          /\ UNCHANGED <<bis, error>>
  /\ UNCHANGED <<bench, caller, mlMatrix, form, p, n, opt, levels, traj, sweep, calc>>

\* BisIterate with the test of line 618 written fmid < 0.
BisIterateSwapped ==
  /\ pc = "bis_iterate"
  /\ IF bis.i < MAX_BISECTION_ITERATIONS
     THEN \E mid1 \in {Mul(Half, Add(bis.lo, bis.hi))} :
          \E fmid1 \in {F_of_W(mid1, p, bis.K1v, bis.K2v)} :
            IF fmid1.threw
            THEN pc' = "threw" /\ error' = fmid1.error /\ UNCHANGED <<bis, solution>>
            ELSE IF Lt(Abs(fmid1.value), EPSILON)
            THEN /\ bis' = [bis EXCEPT !.mid = mid1, !.fmid = fmid1.value]
                 /\ solution' = [WT |-> mid1, K1v |-> bis.K1v, K2v |-> bis.K2v]
                 /\ pc' = "solved"
                 /\ UNCHANGED error
            ELSE /\ bis' = IF Lt(fmid1.value, Zero)
                           THEN [bis EXCEPT !.mid = mid1, !.fmid = fmid1.value,
                                            !.hi = mid1, !.fhi = fmid1.value, !.i = @ + 1]
                           ELSE [bis EXCEPT !.mid = mid1, !.fmid = fmid1.value,
                                            !.lo = mid1, !.flo = fmid1.value, !.i = @ + 1]
                 /\ pc' = "bis_iterate"
                 /\ UNCHANGED <<solution, error>>
     ELSE /\ solution' = [WT |-> bis.mid, K1v |-> bis.K1v, K2v |-> bis.K2v]
          /\ pc' = "solved"
          /\ UNCHANGED <<bis, error>>
  /\ UNCHANGED <<bench, caller, mlMatrix, form, p, n, opt, levels, traj, sweep, calc>>

\* Lines 612-627: one pass of the bisection loop, or the return.
BisIterate ==
  /\ pc = "bis_iterate"
  /\ IF bis.i < MAX_BISECTION_ITERATIONS
     THEN \E mid1 \in {Mul(Half, Add(bis.lo, bis.hi))} :
          \E fmid1 \in {F_of_W(mid1, p, bis.K1v, bis.K2v)} :
            IF fmid1.threw
            THEN pc' = "threw" /\ error' = fmid1.error /\ UNCHANGED <<bis, solution>>
            ELSE IF Lt(Abs(fmid1.value), EPSILON)
            THEN /\ bis' = [bis EXCEPT !.mid = mid1, !.fmid = fmid1.value]
                 /\ solution' = [WT |-> mid1, K1v |-> bis.K1v, K2v |-> bis.K2v]
                 /\ pc' = "solved"
                 /\ UNCHANGED error
            ELSE /\ bis' = IF Gt(fmid1.value, Zero)
                           THEN [bis EXCEPT !.mid = mid1, !.fmid = fmid1.value,
                                            !.hi = mid1, !.fhi = fmid1.value, !.i = @ + 1]
                           ELSE [bis EXCEPT !.mid = mid1, !.fmid = fmid1.value,
                                            !.lo = mid1, !.flo = fmid1.value, !.i = @ + 1]
                 /\ pc' = "bis_iterate"
                 /\ UNCHANGED <<solution, error>>
     ELSE /\ solution' = [WT |-> bis.mid, K1v |-> bis.K1v, K2v |-> bis.K2v]
          /\ pc' = "solved"
          /\ UNCHANGED <<bis, error>>
  /\ UNCHANGED <<bench, caller, mlMatrix, form, p, n, opt, levels, traj, sweep, calc>>

Solver == SolveEnter \/ OptExpand \/ OptIterate \/ BisEnter \/ BisExpand \/ BisIterate

\* ------------------------------------------------------------------------
\* solveWT, then levelsFromWT, then trajectories (lines 1024-1026), and
\* trajectories itself (lines 693-730)
\* ------------------------------------------------------------------------
\* Line 1025 and lines 694-703: the levels, then the entry of trajectories.
TrajEnter ==
  /\ pc = "solved" /\ caller = "computeAndRender"
  /\ \E lv \in {levelsFromWT(solution.WT, p)} :
       IF lv.threw
       THEN pc' = "threw" /\ error' = lv.error /\ UNCHANGED <<levels, traj>>
       ELSE \E s \in {TrajSetup(p, lv.value.A)} :
              /\ levels' = lv.value
              /\ traj' = [NoTraj EXCEPT !.X0 = s.X0, !.tEnd = s.tEnd,
                                        !.X1m = s.X1m, !.X1p = s.X1p]
              /\ pc' = "traj_loop"
              /\ UNCHANGED error
  /\ UNCHANGED <<bench, caller, mlMatrix, form, p, n, opt, bis, solution, sweep, calc>>

\* Lines 705-729: one pass of the sampling loop, or the return.
TrajSample ==
  /\ pc = "traj_loop"
  /\ IF traj.i <= n
     THEN \E t \in {TimeAt(traj.tEnd, traj.i, n)} :
          \E s \in {Sample(p, levels.A, levels.B, traj.X0, traj.X1p, t)} :
              /\ traj' = [traj EXCEPT !.times = Append(@, t), !.c = Append(@, s.c),
                                      !.W = Append(@, s.W),
                                      !.regime = Append(@, s.regime), !.i = @ + 1]
              /\ pc' = "traj_loop"
     ELSE /\ \E tp \in {TransitionPoints(p, traj)} :
               traj' = [traj EXCEPT !.W1m = tp.W1m, !.W1p = tp.W1p]
          /\ pc' = "done"
  /\ UNCHANGED <<bench, caller, mlMatrix, form, p, n, opt, bis, solution, error, levels,
                 sweep, calc>>

Render == TrajEnter \/ TrajSample

\* ------------------------------------------------------------------------
\* tauSweep (lines 736-769)
\* ------------------------------------------------------------------------
\* Lines 737-741.
SweepEnter ==
  /\ pc = "tauSweep"
  /\ sweep' = [NoSweep EXCEPT !.origTau = p.tau]
  /\ pc' = "sweep_loop"
  /\ UNCHANGED <<bench, caller, mlMatrix, form, p, n, opt, bis, solution, error, levels,
                 traj, calc>>

\* SweepPoint without the assignment of line 766.
SweepPointKeepsTau ==
  /\ pc = "sweep_loop"
  /\ IF sweep.i <= n
     THEN /\ p' = [p EXCEPT !.tau = Mul(Div(FromInt(sweep.i), FromInt(n)), maxTau)]
          /\ pc' = "solveWT"
     ELSE /\ p' = p
          /\ pc' = "swept"
  /\ UNCHANGED <<bench, caller, mlMatrix, form, n, opt, bis, solution, error, levels, traj,
                 sweep, calc>>

\* Lines 746-751: the loop test, the write of p.tau and the call of solveWT;
\* lines 766-768 when the loop is over.
SweepPoint ==
  /\ pc = "sweep_loop"
  /\ IF sweep.i <= n
     THEN /\ p' = [p EXCEPT !.tau = Mul(Div(FromInt(sweep.i), FromInt(n)), maxTau)]
          /\ pc' = "solveWT"
     ELSE /\ p' = [p EXCEPT !.tau = sweep.origTau]
          /\ pc' = "swept"
  /\ UNCHANGED <<bench, caller, mlMatrix, form, n, opt, bis, solution, error, levels, traj,
                 sweep, calc>>

\* Lines 752-758 after solveWT returned, inside the try: levelsFromWT,
\* trajectories (which has no throw; its 201 samples are dropped), the four
\* pushes; a throw of levelsFromWT is caught (759-762).
SweepCollect ==
  /\ pc = "solved" /\ caller = "tauSweep"
  /\ \E lv \in {levelsFromWT(solution.WT, p)} :
       IF lv.threw
       THEN sweep' = [sweep EXCEPT !.warned = Append(@, p.tau), !.i = @ + 1]
       ELSE \E tr \in {TransitionPoints(p, TrajSetup(p, lv.value.A))} :
              sweep' = [sweep EXCEPT !.taus = Append(@, p.tau),
                                     !.W1m = Append(@, tr.W1m),
                                     !.W1p = Append(@, tr.W1p),
                                     !.WT = Append(@, solution.WT),
                                     !.i = @ + 1]
  /\ pc' = "sweep_loop"
  /\ UNCHANGED <<bench, caller, mlMatrix, form, p, n, opt, bis, solution, error, levels,
                 traj, calc>>

\* A sweep without the try of line 750: the Error leaves tauSweep.
SweepCatchRethrows ==
  /\ pc = "threw" /\ caller = "tauSweep"
  /\ pc' = "aborted"
  /\ UNCHANGED <<bench, caller, mlMatrix, form, p, n, opt, bis, solution, error, levels, traj,
                 sweep, calc>>

\* A sweep with taus.push(tau) ahead of the try: the failing tau is kept.
SweepCatchPads ==
  /\ pc = "threw" /\ caller = "tauSweep"
  /\ sweep' = [sweep EXCEPT !.taus = Append(@, p.tau), !.warned = Append(@, p.tau),
                            !.i = @ + 1]
  /\ error' = ""
  /\ pc' = "sweep_loop"
  /\ UNCHANGED <<bench, caller, mlMatrix, form, p, n, opt, bis, solution, levels, traj, calc>>

\* Lines 759-762: the catch of an Error thrown by solveWT; console.warn.
SweepCatch ==
  /\ pc = "threw" /\ caller = "tauSweep"
  /\ sweep' = [sweep EXCEPT !.warned = Append(@, p.tau), !.i = @ + 1]
  /\ error' = ""
  /\ pc' = "sweep_loop"
  /\ UNCHANGED <<bench, caller, mlMatrix, form, p, n, opt, bis, solution, levels, traj, calc>>

Sweep == SweepEnter \/ SweepPoint \/ SweepCollect \/ SweepCatch

\* ------------------------------------------------------------------------
\* Direct calls of K1, K2 and levelsFromWT
\* ------------------------------------------------------------------------
CallK1 ==
  /\ pc = "call"
  /\ \E k \in {K1(p)} :
       calc' = [fn |-> "K1", threw |-> k.threw, error |-> k.error, value |-> k.value]
  /\ pc' = "called"
  /\ UNCHANGED <<bench, caller, mlMatrix, form, p, n, opt, bis, solution, error, levels,
                 traj, sweep>>

CallK2 ==
  /\ pc = "call"
  /\ \E k \in {K2(p)} :
       calc' = [fn |-> "K2", threw |-> k.threw, error |-> k.error, value |-> k.value]
  /\ pc' = "called"
  /\ UNCHANGED <<bench, caller, mlMatrix, form, p, n, opt, bis, solution, error, levels,
                 traj, sweep>>

CallLevelsFromWT ==
  /\ pc = "call"
  /\ \E lv \in {levelsFromWT(solution.WT, p)} :
       /\ calc' = [fn |-> "levelsFromWT", threw |-> lv.threw, error |-> lv.error,
                   value |-> NaN]
       /\ levels' = IF lv.threw THEN NoLevels ELSE lv.value
  /\ pc' = "called"
  /\ UNCHANGED <<bench, caller, mlMatrix, form, p, n, opt, bis, solution, error, traj, sweep>>

Calls == CallK1 \/ CallK2 \/ CallLevelsFromWT

\* ------------------------------------------------------------------------
\* toParams as a step of its own
\* ------------------------------------------------------------------------
ToParams ==
  /\ pc = "toParams"
  /\ \E r \in {toParams(form)} :
       IF r.threw
       THEN pc' = "threw" /\ error' = r.error /\ UNCHANGED p
       ELSE pc' = "derived" /\ p' = r.value /\ UNCHANGED error
  /\ UNCHANGED <<bench, caller, mlMatrix, form, n, opt, bis, solution, levels, traj, sweep,
                 calc>>

\* ------------------------------------------------------------------------
\* Scenarios
\* ------------------------------------------------------------------------
\* Largest n of trajectories(p, WT, A, B, n) and of tauSweep(p, n) explored.
MaxN == 3

\* Filled-in forms: the shipped one and variations of single fields.
Forms ==
  { BaseForm,
    [BaseForm EXCEPT !.w0 = "1e-8", !.y = "0", !.eta = "2"],
    [BaseForm EXCEPT !.w0 = "-100", !.y = "0"],
    [BaseForm EXCEPT !.w0 = "-180"],
    [BaseForm EXCEPT !.r = "0"],
    [BaseForm EXCEPT !.beta = "0"],
    [BaseForm EXCEPT !.beta = "-1"],
    [BaseForm EXCEPT !.r = "1", !.T1 = "400", !.T2 = "400", !.tau = "1"],
    [BaseForm EXCEPT !.T2 = "-20"],
    [BaseForm EXCEPT !.T1 = "0.05", !.T2 = "0.05"],
    [BaseForm EXCEPT !.gamma = "0"],
    [BaseForm EXCEPT !.w0 = "400"],
    [BaseForm EXCEPT !.beta = "1e-30"],
    [BaseForm EXCEPT !.T1 = "-20", !.T2 = "-20", !.y = "0"],
    [BaseForm EXCEPT !.T1 = "100", !.T2 = "0.3"] }

\* What an input element may hold.
Texts == {"", "abc", "Infinity", "-Infinity", NoElement, "0", "-1", "1e-8"}

\* The shipped form with one element changed.
EditedForms ==
  {[BaseForm EXCEPT ![inputs[j]] = t] : j \in 1..Len(inputs), t \in Texts}

\* Terminal wealths handed to a direct call of levelsFromWT.
Wealths == {Zero, One, FromInt(100), Dec(1, -8)}

\* The parameter object before toParams has run.
NoParams == [k \in {"r", "rho", "gamma", "eta", "T1", "T2", "beta", "w0", "y", "zeta",
                    "tau", "T", "alpha", "g", "kappa", "R"} |-> NaN]

Idle ==
  /\ opt = NoOpt /\ bis = NoBis /\ solution = NoSolution /\ error = ""
  /\ levels = NoLevels /\ traj = NoTraj /\ sweep = NoSweep /\ calc = NoCalc
  /\ bench = NoBench

\* Either solveWT(p), levelsFromWT(WT, p), trajectories(p, WT, A, B, n) in
\* sequence, as computeAndRender calls them once it has seen r > 0 (n is
\* the parameter of trajectories), or one solver called on its own, as
\* benchmarkSolvers calls them.
Init ==
  /\ mlMatrix \in BOOLEAN
  /\ form \in Forms
  /\ \E d \in {toParams(form)} : ~d.threw /\ p = d.value
  /\ \/ pc = "solveWT" /\ caller = "computeAndRender" /\ Gt(p.r, Zero) /\ n \in 0..MaxN
     \/ pc \in {"solveWT", "solveWTBisection"} /\ caller = "benchmarkSolvers" /\ n = 0
  /\ Idle

Next == Solver \/ Render

Spec == Init /\ [][Next]_vars

\* ------------------------------------------------------------------------
\* benchmarkSolvers (lines 640-666); n is its parameter iterations
\* ------------------------------------------------------------------------
\* Lines 641-646: the entry, into the first call of solveWTOptimized; with
\* no iterations neither loop runs.
BenchEnter ==
  /\ pc = "benchmarkSolvers"
  /\ IF n > 0
     THEN pc' = "solveWT" /\ bench' = [bench EXCEPT !.stage = "optimized"]
     ELSE pc' = "benched" /\ bench' = [bench EXCEPT !.stage = "bisection"]
  /\ UNCHANGED <<caller, mlMatrix, form, p, n, opt, bis, solution, error, levels, traj,
                 sweep, calc>>

\* Lines 645-654: a solver has returned into its loop; the next call of the
\* same loop, the first call of the second loop, or the end of the second.
\* A throw of a solver is not caught and ends benchmarkSolvers.
BenchLoop ==
  /\ pc = "solved" /\ caller = "benchmarkSolvers" /\ bench.stage # "none"
  /\ IF bench.stage = "optimized"
     THEN IF bench.i + 1 < n
          THEN /\ pc' = "solveWT"
               /\ bench' = [bench EXCEPT !.i = @ + 1, !.optimized = solution]
          ELSE /\ pc' = "solveWTBisection"
               /\ bench' = [stage |-> "bisection", i |-> 0, optimized |-> solution]
     ELSE IF bench.i + 1 < n
          THEN /\ pc' = "solveWTBisection"
               /\ bench' = [bench EXCEPT !.i = @ + 1]
          ELSE /\ pc' = "benched"
               /\ bench' = [bench EXCEPT !.i = @ + 1]
  /\ UNCHANGED <<caller, mlMatrix, form, p, n, opt, bis, solution, error, levels, traj,
                 sweep, calc>>

Bench == BenchEnter \/ BenchLoop

\* benchmarkSolvers(p, n)
InitBench ==
  /\ pc = "benchmarkSolvers" /\ caller = "benchmarkSolvers"
  /\ mlMatrix \in BOOLEAN
  /\ form \in Forms
  /\ \E d \in {toParams(form)} : ~d.threw /\ p = d.value
  /\ n \in 0..MaxN
  /\ Idle

NextBench == Solver \/ Bench

SpecBench == InitBench /\ [][NextBench]_vars

\* tauSweep(p, n)
InitSweep ==
  /\ pc = "tauSweep" /\ caller = "tauSweep"
  /\ mlMatrix \in BOOLEAN
  /\ form \in Forms
  /\ \E d \in {toParams(form)} : ~d.threw /\ p = d.value
  /\ n \in 1..MaxN
  /\ Idle

NextSweep == Solver \/ Sweep

SpecSweep == InitSweep /\ [][NextSweep]_vars

\* An Error thrown inside the try block of tauSweep reaches its catch clause.
SpecSweepFair == SpecSweep /\ WF_vars(SweepCatch)

\* K1(p), K2(p) and levelsFromWT(WT, p) called on their own
InitCalls ==
  /\ pc = "call" /\ caller = "none"
  /\ mlMatrix = FALSE
  /\ form \in Forms
  /\ \E d \in {toParams(form)} : ~d.threw /\ p = d.value
  /\ n = 0
  /\ opt = NoOpt /\ bis = NoBis /\ error = "" /\ levels = NoLevels
  /\ traj = NoTraj /\ sweep = NoSweep /\ calc = NoCalc /\ bench = NoBench
  /\ \E w \in Wealths : solution = [NoSolution EXCEPT !.WT = w]

SpecCalls == InitCalls /\ [][Calls]_vars

\* toParams() on a form
InitParams ==
  /\ pc = "toParams" /\ caller = "none"
  /\ mlMatrix \in BOOLEAN
  /\ form \in EditedForms \cup Forms
  /\ p = NoParams
  /\ n = 0
  /\ Idle

SpecParams == InitParams /\ [][ToParams]_vars

\* ------------------------------------------------------------------------
\* Properties
\* ------------------------------------------------------------------------
\* tau as toParams derived it from the form, before any sweep wrote p.tau.
DerivedTau(d) == d.value.tau

\* C1: once tauSweep has returned, p.tau is the value it had before the
\* call, whatever happened at the sweep points.
C1_TauRestored == pc = "swept" => \E d \in {toParams(form)} : p.tau = DerivedTau(d)

\* A sweep that returned after the solve threw at every one of its points.
C1_SweptAllFailed == pc = "swept" /\ Len(sweep.warned) = n + 1 /\ p.tau = Dec(3, -1)

\* C2: an Error thrown at a sweep point is caught there; the sweep goes on
\* over the rest of the grid and returns, every point of the grid having
\* either delivered a result or been skipped.
C2_FailureSkipsPoint ==
  /\ (pc = "threw") ~> (pc = "sweep_loop" /\ error = "")
  /\ [][pc = "threw" =>
          /\ sweep'.i = sweep.i + 1
          /\ sweep'.warned = Append(sweep.warned, p.tau)
          /\ sweep'.taus = sweep.taus /\ sweep'.WT = sweep.WT
          /\ sweep'.W1m = sweep.W1m /\ sweep'.W1p = sweep.W1p]_vars
  /\ [](pc = "swept" => Len(sweep.taus) + Len(sweep.warned) = n + 1)

\* A sweep that returned results although an earlier point had failed.
C2_SweptPastFailure ==
  /\ pc = "swept"
  /\ sweep.warned # <<>> /\ sweep.taus # <<>>
  /\ Lt(sweep.warned[1], sweep.taus[Len(sweep.taus)])

\* W1m and W1p are those of the trajectory for q and WTv.
PointAligned(q, w1m, w1p, lv) ==
  /\ ~lv.threw
  /\ \E tp \in {TransitionPoints(q, TrajSetup(q, lv.value.A))} :
       w1m = tp.W1m /\ w1p = tp.W1p
AlignedAt(q, WTv, w1m, w1p) == PointAligned(q, w1m, w1p, levelsFromWT(WTv, q))

\* C3: the four result sequences of tauSweep always have one length, at
\* most n + 1; the entries at an index belong to one sweep point; a tau at
\* which the solve failed is in none of them.
C3_SequencesAligned ==
  /\ Len(sweep.taus) = Len(sweep.WT)
  /\ Len(sweep.W1m) = Len(sweep.WT)
  /\ Len(sweep.W1p) = Len(sweep.WT)
  /\ Len(sweep.taus) <= n + 1
  /\ Len(sweep.taus) + Len(sweep.warned) = sweep.i
  /\ \A k \in DOMAIN sweep.taus :
       AlignedAt([p EXCEPT !.tau = sweep.taus[k]], sweep.WT[k], sweep.W1m[k], sweep.W1p[k])
  /\ \A j \in DOMAIN sweep.warned : \A k \in DOMAIN sweep.taus :
       sweep.warned[j] # sweep.taus[k]

\* A sweep under way with two results and one skipped point.
C3_TwoKeptOneSkipped == Len(sweep.taus) >= 2 /\ Len(sweep.warned) >= 1

\* C4: whenever solveWT returns, the WT it returns is >= 0.
C4_ReturnedWTNonNegative == pc = "solved" => Ge(solution.WT, Zero)

\* The call ran solveWTBisection (its hi is never 0 once it has started).
OnBisection == bis.hi # Zero

\* F at the returned WT.
Residual == F_of_W(solution.WT, p, solution.K1v, solution.K2v).value

\* r > 0, beta > 0, gamma != 0
Valid(q) == Gt(q.r, Zero) /\ Gt(q.beta, Zero) /\ q.gamma # Zero

\* The interval the solver holds when it returns brackets a root.
BracketHeld ==
  IF OnBisection THEN Lt(bis.flo, Zero) /\ Gt(bis.fhi, Zero)
  ELSE SignChange(opt.fa, opt.fb)

\* C5 as stated: on valid parameters, bracketing having succeeded, the
\* returned WT has |F(WT)| < epsilon.
C5_ResidualWithinTolerance ==
  pc = "solved" /\ Valid(p) /\ BracketHeld => Lt(Abs(Residual), EPSILON)

\* C5: whenever the solver returns WT, |F(WT)| is below the tolerance of the
\* path taken (EPSILON on the bisection path, 1e-12 on the optimized one),
\* or that path's iteration budget is used up, or (optimized path) the
\* interval has become narrower than 1e-12.
C5_ResidualOrBudget ==
  pc = "solved" =>
    IF OnBisection
    THEN Lt(Abs(Residual), EPSILON) \/ bis.i = MAX_BISECTION_ITERATIONS
    ELSE \/ Lt(Abs(Residual), tolerance)
         \/ Lt(Abs(Sub(opt.b, opt.a)), tolerance)
         \/ opt.iter = maxIterations

\* A result on valid parameters, from a bracketing interval, whose residual
\* is not below epsilon: the iteration budget ran out first.
C5_BudgetExhausted ==
  /\ pc = "solved" /\ Valid(p) /\ BracketHeld
  /\ ~Lt(Abs(Residual), EPSILON)
  /\ (bis.i = MAX_BISECTION_ITERATIONS \/ opt.iter = maxIterations)

\* C6: the solver starts to bisect only from an interval that brackets a
\* root (F(lo) < 0 and F(hi) >= 0, or a sign change); without one it has
\* thrown the bracketing error.
C6_BisectsOnlyBracketed ==
  /\ pc = "opt_iterate" /\ opt.iter = 0 =>
       SignChange(opt.fa, opt.fb) \/ (Lt(opt.fa, Zero) /\ Ge(opt.fb, Zero))
  /\ pc = "bis_iterate" /\ bis.i = 0 =>
       SignChange(bis.flo, bis.fhi) \/ (Lt(bis.flo, Zero) /\ Ge(bis.fhi, Zero))

\* Some input of the form does not parse to a finite number.
SomeNonFinite(v) == \E j \in DOMAIN v : ~isFinite(v[j])

\* C7: toParams returns no parameter set when an input is not finite or
\* gamma is 0.
C7_RejectsBadInput ==
  SomeNonFinite(Parsed(form)) \/ parseFloat(form.gamma) = Zero => pc # "derived"

\* C8: with r = 0 and beta > 0 the solver throws the error of RHS before it
\* has set up any interval, and returns nothing, whichever path it is on.
C8_ZeroRateThrows ==
  p.r = Zero /\ Gt(p.beta, Zero) =>
    /\ pc \in {"solveWT", "solveWTBisection", "threw"}
    /\ pc = "threw" => error = RateError
    /\ opt = NoOpt /\ bis = NoBis /\ solution = NoSolution

\* solveWT has thrown on r = 0 with MLMatrix present.
C8_ThrewOnZeroRate ==
  pc = "threw" /\ p.r = Zero /\ Gt(p.beta, Zero) /\ error = RateError /\ mlMatrix

\* C9: with beta <= 0, K1, K2 and levelsFromWT throw the beta error and
\* return no coefficient and no level.
C9_NonPositiveBetaThrows ==
  pc = "called" /\ Le(p.beta, Zero) =>
    /\ calc.threw /\ calc.error = BetaError
    /\ calc.value = NaN /\ levels = NoLevels

\* K1 has been called with a negative beta.
C9_CalledNegativeBeta ==
  pc = "called" /\ Lt(p.beta, Zero) /\ calc.fn = "K1" /\ calc.threw

\* ts is strictly increasing.
Increasing(ts) == \A i \in DOMAIN ts : \A j \in DOMAIN ts : i < j => Lt(ts[i], ts[j])

\* x is y up to the rounding of the two operations of (tEnd * n) / n.
Close(x, y) == Le(Abs(Sub(x, y)), Mul(Abs(y), Scale(One, 2 - MantBits)))

\* C10 as stated: for every call, times has n + 1 entries, starts at 0,
\* ends at T1 + T2 and is strictly increasing; c and W have n + 1 entries.
C10_TimesGrid ==
  pc = "done" =>
    /\ Len(traj.times) = n + 1 /\ Len(traj.c) = n + 1 /\ Len(traj.W) = n + 1
    /\ traj.times[1] = Zero
    /\ traj.times[n + 1] = Add(p.T1, p.T2)
    /\ Increasing(traj.times)

\* A horizon T1 + T2 between 2^-300 and 2^300.
OrdinaryHorizon(tEnd) == Ge(tEnd, Scale(One, -300)) /\ Le(tEnd, Scale(One, 300))

\* C10: for n >= 1 and a horizon T1 + T2 between 2^-300 and 2^300, times,
\* c and W have n + 1 entries, times starts at 0, is strictly increasing,
\* and ends at T1 + T2 up to the rounding of (tEnd * n) / n.
C10_TimesGridPositiveHorizon ==
  pc = "done" /\ n >= 1 /\ OrdinaryHorizon(Add(p.T1, p.T2)) =>
    /\ Len(traj.times) = n + 1 /\ Len(traj.c) = n + 1 /\ Len(traj.W) = n + 1
    /\ traj.times[1] = Zero
    /\ Close(traj.times[n + 1], Add(p.T1, p.T2))
    /\ Increasing(traj.times)

\* A trajectory of more than two samples over a positive horizon.
C10_SampledPositiveHorizon ==
  pc = "done" /\ n >= 2 /\ OrdinaryHorizon(Add(p.T1, p.T2)) /\ Len(traj.times) = n + 1

\* C11: while tauSweep runs, and after it, the caller's parameter object
\* is field for field what toParams derived: no field, tau included, is
\* ever written.
C11_ParamsNeverModified == \E d \in {toParams(form)} : p = d.value

\* Loop passes the solver can still make from the statement it is at.
Budget ==
  CASE pc = "solveWT" ->
         OPT_BRACKET_TRIES + maxIterations + MAX_BRACKET_TRIES + MAX_BISECTION_ITERATIONS + 7
    [] pc = "opt_expand" -> (OPT_BRACKET_TRIES - opt.i + 1) + (maxIterations + 1)
    [] pc = "opt_iterate" -> maxIterations - opt.iter + 1
    [] pc = "solveWTBisection" -> MAX_BRACKET_TRIES + MAX_BISECTION_ITERATIONS + 3
    [] pc = "bis_expand" ->
         (MAX_BRACKET_TRIES - bis.tries + 1) + (MAX_BISECTION_ITERATIONS + 1)
    [] pc = "bis_iterate" -> MAX_BISECTION_ITERATIONS - bis.i + 1
    [] OTHER -> 0

\* The solver is running.
InSolver ==
  pc \in {"solveWT", "opt_expand", "opt_iterate", "solveWTBisection", "bis_expand",
          "bis_iterate"}

\* x doubled k times.
Doubled(x, k) == IF isFinite(x) THEN Scale(x, k) ELSE x

\* C12: the solver's loop counters never pass 40 doublings and 80 steps on
\* the bisection path, 20 doublings and 50 steps on the optimized path (the
\* upper end of the interval is its first value doubled that many times),
\* and every step of the solver uses up some of what is left of that
\* budget, so every call ends, in a result or in an error.
C12_SolverTerminates ==
  /\ [](/\ bis.tries <= MAX_BRACKET_TRIES /\ bis.i <= MAX_BISECTION_ITERATIONS
        /\ opt.i <= OPT_BRACKET_TRIES /\ opt.iter <= maxIterations
        /\ Budget >= 0
        /\ pc = "bis_expand" =>
             bis.hi = Doubled(Max(EPSILON, bis.rhsValue), bis.tries)
        /\ pc = "opt_expand" =>
             opt.b = Doubled(Max(Mul(opt.rhsValue, Two), FromInt(10)), opt.i)
        /\ pc = "opt_iterate" /\ opt.iter = 0 =>
             \E k \in 0..OPT_BRACKET_TRIES :
               opt.b = Doubled(Max(Mul(opt.rhsValue, Two), FromInt(10)), k))
  /\ [][InSolver => Budget' < Budget]_vars

\* The bisection path has given up after all its doublings.
C12_DoublingsUsedUp ==
  pc = "threw" /\ error = BracketError /\ bis.tries = MAX_BRACKET_TRIES

\* C13: a solver that has used up its step budget returns the midpoint of
\* the interval it is left with: 0.5 * (lo + hi) of the final lo and hi on
\* the bisection path, (a + b) / 2 on the optimized path.
C13_ReturnsMidpointOfFinalBracket ==
  pc = "solved" =>
    IF OnBisection
    THEN bis.i = MAX_BISECTION_ITERATIONS =>
           solution.WT = Mul(Half, Add(bis.lo, bis.hi))
    ELSE opt.iter = maxIterations => solution.WT = Div(Add(opt.a, opt.b), Two)

\* C14: with MLMatrix present, whenever solveWTBisection ends on a
\* parameter set on which solveWTOptimized has returned, it returns too,
\* with the same K1 and K2 and a WT within EPSILON of the optimized one.
C14_PathsEquivalent ==
  mlMatrix /\ bench.stage = "bisection" /\ pc \in {"solved", "threw"} =>
    /\ pc = "solved"
    /\ solution.K1v = bench.optimized.K1v
    /\ solution.K2v = bench.optimized.K2v
    /\ Lt(Abs(Sub(solution.WT, bench.optimized.WT)), EPSILON)

\* trajectories is sampling or has returned.
InTrajectories == pc \in {"traj_loop", "done"}

\* dt of line 716 for the j-th sample.
DtAt(j) == Max(Zero, Sub(traj.times[j], p.T1))

\* x === y of two Numbers: NaN equals nothing.
Same(x, y) == x = y /\ x # NaN

\* Each sample comes from one branch, the one the test of line 709 picks.
BranchOfEachSample ==
  \A j \in 1..Len(traj.times) :
    /\ traj.regime[j] \in {"pre", "post"}
    /\ traj.regime[j] = "pre" <=> Lt(traj.times[j], Sub(p.T1, EPSILON))
    /\ \E s \in {IF traj.regime[j] = "pre"
                 THEN PreLevy(p, levels.A, traj.X0, traj.times[j])
                 ELSE PostLevy(p, levels.B, traj.X1p, DtAt(j))} :
         traj.c[j] = s.c /\ traj.W[j] = s.W

\* dt >= 0 in every post-levy sample.
DtNonNegative ==
  \A j \in 1..Len(traj.times) : traj.regime[j] = "post" => Ge(DtAt(j), Zero)

\* No pre-levy sample comes after a post-levy one.
PreIsPrefix ==
  \A j, k \in 1..Len(traj.times) :
    j < k /\ traj.regime[k] = "pre" => traj.regime[j] = "pre"

\* A sample taken at T1 has the wealth returned as W1p.
AtT1IsW1p ==
  \A j \in 1..Len(traj.times) :
    traj.times[j] = p.T1 => Same(traj.W[j], traj.W1p)

\* C15 as stated: on every call of trajectories each sample is pre-levy iff
\* t < T1 - EPSILON and post-levy otherwise, with dt >= 0; the pre-levy
\* samples are a prefix; a sample at t = T1 has wealth equal to W1p.
C15_RegimeSelection ==
  /\ InTrajectories => BranchOfEachSample /\ DtNonNegative /\ PreIsPrefix
  /\ pc = "done" => AtT1IsW1p

\* C15: each sample is pre-levy (A, X0) iff t < T1 - EPSILON and post-levy
\* (B, X1p, dt = max(0, t - T1)) otherwise; for n >= 1, dt >= 0; for n >= 1
\* and T1 + T2 >= 0 the pre-levy samples are a prefix; where B and W1p are
\* finite, a sample at t = T1 has wealth equal to W1p.
C15_RegimeSelectionOnGrid ==
  /\ InTrajectories =>
       /\ BranchOfEachSample
       /\ n >= 1 => DtNonNegative
       /\ n >= 1 /\ Ge(Add(p.T1, p.T2), Zero) => PreIsPrefix
  /\ pc = "done" /\ isFinite(levels.B) /\ isFinite(traj.W1p) => AtT1IsW1p

\* A trajectory with a pre-levy sample, then a sample at T1 itself, then a
\* later one, and finite levels.
C15_SampledAtT1 ==
  /\ pc = "done" /\ isFinite(levels.B) /\ isFinite(traj.W1p)
  /\ \E j \in 2..(Len(traj.times) - 1) :
       /\ traj.times[j] = p.T1
       /\ traj.regime[j - 1] = "pre" /\ traj.regime[j] = "post"
       /\ Gt(DtAt(j + 1), Zero)

\* hi - lo of the bisection, now and after the step.
Width == Sub(bis.hi, bis.lo)
WidthAfter == Sub(bis.hi', bis.lo')

\* A pass of the bisection loop that does not stop on tolerance.
BisectionPass == pc = "bis_iterate" /\ pc' = "bis_iterate"

\* The bracket of the bisection: 0 <= lo <= hi, and the stored flo < 0 < fhi.
BisBracket ==
  /\ Ge(bis.lo, Zero) /\ Le(bis.lo, bis.hi)
  /\ Lt(bis.flo, Zero) /\ Gt(bis.fhi, Zero)

\* What a pass does to the bracket: mid lies in it, and lo and hi move
\* towards each other.
BisNarrows ==
  /\ Le(bis.lo, bis.mid') /\ Le(bis.mid', bis.hi)
  /\ Ge(bis.lo', bis.lo) /\ Le(bis.hi', bis.hi)

\* C16 as stated: after the bracketing step the bisection keeps
\* 0 <= lo <= mid <= hi and flo < 0 < fhi, lo never decreases, hi never
\* increases, and a pass that does not stop on tolerance leaves hi - lo at
\* half of what it was.
C16_BracketHalved ==
  /\ [](pc = "bis_iterate" => BisBracket)
  /\ [][BisectionPass => BisNarrows /\ WidthAfter = Mul(Half, Width)]_vars

\* C16: after the bracketing step the bisection keeps 0 <= lo <= mid <= hi
\* and flo < 0 < fhi, lo never decreases, hi never increases, and a pass
\* that does not stop on tolerance leaves hi - lo no larger than before and
\* within one unit in the last place of hi of half of what it was; hi - lo
\* gets smaller unless mid is lo or hi itself.
C16_BracketNarrows ==
  /\ [](pc = "bis_iterate" => BisBracket)
  /\ [][BisectionPass =>
          /\ BisNarrows
          /\ Le(WidthAfter, Width)
          /\ Le(Abs(Sub(WidthAfter, Mul(Half, Width))), Scale(bis.hi, 1 - MantBits))
          /\ Lt(WidthAfter, Width) \/ bis.mid' \in {bis.lo, bis.hi}]_vars

\* The bisection has made a pass from a bracket whose ends are not next to
\* each other, and has moved lo up.
C16_LoMovedUp ==
  /\ pc = "bis_iterate" /\ bis.i > 0
  /\ Gt(bis.lo, Zero) /\ bis.lo = bis.mid /\ Lt(bis.lo, bis.hi)
====
